---- MODULE Spec2Model ----
(***************************************************************************)
(* Model of package mnist (src/mnist.go): the init function that checks    *)
(* the four cached files, downloads the ones that fail the check and       *)
(* decodes the two image/label pairs, and the Set accessors.               *)
(*                                                                         *)
(* Two runs of the program are stepped side by side on the same inputs:    *)
(* run "logged" has Logger set (the package default), run "silent" has     *)
(* Logger == nil.  Each run has its own disk, starting from the same files.*)
(*                                                                         *)
(* The files are scaled down: the four canonical files are a few dozen     *)
(* bytes long, a digest has 2 bytes instead of 16 and a gzip member is its *)
(* two magic bytes followed by the stored stream.  Integer widths are the  *)
(* program's: int32 arithmetic wraps at 32 bits, computed on byte limbs.   *)
(***************************************************************************)
EXTENDS Integers, Sequences, FiniteSets, TLC

(***************************************************************************)
(* Bounds of the model.                                                    *)
(***************************************************************************)
\* number of times the process is started on the same disk
MaxBoots == 2

(***************************************************************************)
(* Integer arithmetic on little-endian byte limbs (two's complement).      *)
(***************************************************************************)
\* limbs of x in w bytes; x is within the int32 range
LE(x, w) ==
    [k \in 0..(w - 1) |->
        IF x >= 0
        THEN (IF k < 4 THEN (x \div (256 ^ k)) % 256 ELSE 0)
        ELSE 255 - (IF k < 4 THEN ((-(x + 1)) \div (256 ^ k)) % 256 ELSE 0)]

RECURSIVE Conv(_, _, _, _)
Conv(a, b, k, j) ==
    IF j > k THEN 0 ELSE a[j] * b[k - j] + Conv(a, b, k, j + 1)

RECURSIVE Carry(_, _, _)
Carry(a, b, k) ==
    IF k < 0 THEN 0 ELSE (Conv(a, b, k, 0) + Carry(a, b, k - 1)) \div 256

\* the product of two w-byte numbers, truncated to w bytes
MulLE(a, b, w) ==
    [k \in 0..(w - 1) |-> (Conv(a, b, k, 0) + Carry(a, b, k - 1)) % 256]

\* the int32 held by four limbs
Int32Of(c) ==
    IF c[3] >= 128
    THEN -((255 - c[3]) * 16777216 + (255 - c[2]) * 65536
           + (255 - c[1]) * 256 + (255 - c[0])) - 1
    ELSE c[3] * 16777216 + c[2] * 65536 + c[1] * 256 + c[0]

\* Go's x * y on int32 operands: the product wraps at 32 bits
Mul32(x, y) == Int32Of(MulLE(LE(x, 4), LE(y, 4), 4))

(***************************************************************************)
(* File formats.                                                           *)
(***************************************************************************)
xLAB == 2049
xIMG == 2051

\* binary.Read(z, binary.BigEndian, &v) for an int32 v, from four bytes
BigEndianInt32(b) ==
    Int32Of([k \in 0..3 |-> b[4 - k]])

\* the four bytes of an int32 in a file, most significant first
PutInt32(x) ==
    LET c == LE(x, 4) IN <<c[3], c[2], c[1], c[0]>>

\* gzip.NewReader: the member starts with the magic bytes 1f 8b
gzipOK(data) ==
    Len(data) >= 2 /\ data[1] = 31 /\ data[2] = 139

\* the decompressed stream of a member
gunzip(data) == SubSeq(data, 3, Len(data))

Gz(stream) == <<31, 139>> \o stream

ImageStream(count, rows, cols, pixels) ==
    PutInt32(xIMG) \o PutInt32(count) \o PutInt32(rows) \o PutInt32(cols) \o pixels

LabelStream(magic, count, labels) ==
    PutInt32(magic) \o PutInt32(count) \o labels

RECURSIVE SumBytes(_, _, _)
SumBytes(data, k, weighted) ==
    IF k > Len(data) THEN 0
    ELSE ((IF weighted THEN k * data[k] ELSE data[k])
          + SumBytes(data, k + 1, weighted)) % 256

\* md5.New / io.Copy(hash, f) / hash.Sum(nil): the digest of the content
md5Sum(data) == <<SumBytes(data, 1, FALSE), SumBytes(data, 1, TRUE)>>

HexDigit(d) == SubSeq("0123456789abcdef", d + 1, d + 1)

\* "%X" in place of "%x": upper-case digits
RECURSIVE SprintfUpper(_)
SprintfUpper(s) ==
    IF s = <<>> THEN ""
    ELSE SubSeq("0123456789ABCDEF", (s[1] \div 16) + 1, (s[1] \div 16) + 1)
         \o SubSeq("0123456789ABCDEF", (s[1] % 16) + 1, (s[1] % 16) + 1)
         \o SprintfUpper(Tail(s))

\* fmt.Sprintf("%x", s) on a byte slice: two lower-case digits per byte
RECURSIVE Sprintfx(_)
Sprintfx(s) ==
    IF s = <<>> THEN ""
    ELSE HexDigit(s[1] \div 16) \o HexDigit(s[1] % 16) \o Sprintfx(Tail(s))

(***************************************************************************)
(* The asset table and the bodies a file or a response can hold.           *)
(***************************************************************************)
Assets == 1..4

\* the published file of each asset; 1, 2: training images and labels,
\* 3, 4: test images and labels
Canon ==
    [k \in Assets |->
        CASE k = 1 -> Gz(ImageStream(2, 1, 2, <<10, 20, 30, 40>>))
          [] k = 2 -> Gz(LabelStream(xLAB, 2, <<5, 9>>))
          [] k = 3 -> Gz(ImageStream(1, 1, 2, <<50, 60>>))
          [] k = 4 -> Gz(LabelStream(xLAB, 1, <<7>>))]

\* the table: the length and the md5 of each published file
mnist ==
    <<[length |-> 22, md5 |-> "1ee9"],
      [length |-> 12, md5 |-> "c31a"],
      [length |-> 20, md5 |-> "2711"],
      [length |-> 11, md5 |-> "bbba"]>>

IsImages(k) == k \in {1, 3}

Fill(n, b) == [j \in 1..n |-> b]

\* a body of the published length whose content is not the published one
Redrawn ==
    [k \in Assets |->
        CASE k = 1 -> Gz(ImageStream(2, 1, 2, <<10, 20, 30, 41>>))
          [] k = 2 -> Gz(LabelStream(xLAB, 2, <<5, 8>>))
          [] k = 3 -> Gz(ImageStream(1, 1, 2, <<50, 61>>))
          [] k = 4 -> Gz(LabelStream(xLAB, 1, <<6>>))]

\* bodies of the published length with another content.  Images: header
\* fields whose product does not fit 32 bits, a negative count, a count the
\* payload does not reach.  Labels: a count the payload does not reach, the
\* magic number of the other kind.
Forged ==
    [k \in Assets |->
        LET room == mnist[k].length - 10 IN
        IF IsImages(k)
        THEN { Gz(ImageStream(1, 65536, 65536, Fill(room - 8, 1))),
               Gz(ImageStream(-1, 1, 1, Fill(room - 8, 2))),
               Gz(ImageStream(3, 1, 2, Fill(room - 8, 3))) }
        ELSE { Gz(LabelStream(xLAB, 3, Fill(room, 6))),
               Gz(LabelStream(xIMG, 1, Fill(room, 7))) }]

NoFile == [exists |-> FALSE, data |-> <<>>]
File(data) == [exists |-> TRUE, data |-> data]

\* the states a cached file can be found in when the process starts: missing,
\* published, too short, of the published length with another content
Cached ==
    [k \in Assets |->
        {NoFile, File(Canon[k]), File(SubSeq(Canon[k], 1, 3)), File(Redrawn[k])}]

\* what cl.Get, os.Create and the copy of the body can produce for asset k:
\* a transport error, or a response with a status and a body; the copy either
\* takes the whole body or stops with an error after some bytes; os.Create
\* may fail
Responses ==
    [k \in Assets |->
        {[get |-> "error", status |-> 0, body |-> <<>>, copied |-> 0,
          copyErr |-> FALSE, create |-> "ok"]}
        \cup {[get |-> "ok", status |-> 200, body |-> b, copied |-> Len(b),
               copyErr |-> FALSE, create |-> "ok"] :
                b \in {Canon[k], Canon[k] \o <<0>>} \cup Forged[k]}
        \cup {[get |-> "ok", status |-> 200, body |-> Canon[k], copied |-> c,
               copyErr |-> TRUE, create |-> "ok"] :
                c \in {3, mnist[k].length}}
        \cup {[get |-> "ok", status |-> 200, body |-> Canon[k],
               copied |-> mnist[k].length, copyErr |-> FALSE,
               create |-> "error"]}
        \cup {[get |-> "ok", status |-> 404, body |-> b, copied |-> Len(b),
               copyErr |-> FALSE, create |-> "ok"] :
                b \in {Fill(mnist[k].length, 60)}}]

(***************************************************************************)
(* State.                                                                  *)
(***************************************************************************)
Runs == {"logged", "silent"}

\* the package variable Logger of each run, fixed before init runs
Logger == [logged |-> "set", silent |-> "nil"]

\* the zero Set
NoSet == [count |-> 0, rows |-> 0, cols |-> 0, matrix |-> <<>>, labels |-> <<>>]

NoView == [set |-> "", index |-> 0, label |-> 0, image |-> <<>>, panic |-> FALSE]

NotBuilt == [images |-> FALSE, labels |-> FALSE]

VARIABLES
    boot,    \* the number of times the process has been started
    pc,      \* where init stands: "check", "download", "readTrain",
             \* "readTest", "done" (init returned), "dead" (process ended)
    i,       \* the loop index of init, 1..4 for mnist[0..3]
    disk,    \* the local file of each asset
    Train,   \* the package variable Train
    Test,    \* the package variable Test
    log,     \* what Logger has printed
    exit,    \* how the process ended: "" (running), "exit" (os.Exit(1)), "panic"
    ops,     \* history: cache checks, requests and file writes of this process
    met,     \* history: the I/O error the cache check met in the last step
    failed,  \* history: a step of this process reported an error
    left,    \* history: the assets whose file is what a mismatched copy left
    built,   \* history: which halves of Train and Test a decode completed
    view     \* the result of the last Index call

vars ==
    <<boot, pc, i, disk, Train, Test, log, exit, ops, met, failed, left, built,
      view>>

\* the state of run r as one record
S(r) ==
    [pc |-> pc[r], i |-> i[r], disk |-> disk[r], Train |-> Train[r],
     Test |-> Test[r], log |-> log[r], exit |-> exit[r], ops |-> ops[r],
     met |-> met[r], failed |-> failed[r], left |-> left[r], built |-> built[r],
     view |-> view[r]]

\* the next state of both runs; m is n, evaluated once
Commit(n) ==
    \E m \in {n} :
        /\ pc' = [r \in Runs |-> m[r].pc]
        /\ i' = [r \in Runs |-> m[r].i]
        /\ disk' = [r \in Runs |-> m[r].disk]
        /\ Train' = [r \in Runs |-> m[r].Train]
        /\ Test' = [r \in Runs |-> m[r].Test]
        /\ log' = [r \in Runs |-> m[r].log]
        /\ exit' = [r \in Runs |-> m[r].exit]
        /\ ops' = [r \in Runs |-> m[r].ops]
        /\ met' = [r \in Runs |-> m[r].met]
        /\ failed' = [r \in Runs |-> m[r].failed]
        /\ left' = [r \in Runs |-> m[r].left]
        /\ built' = [r \in Runs |-> m[r].built]
        /\ view' = [r \in Runs |-> m[r].view]

\* the process as it is when init is entered, on the given disk
Fresh(d, l) ==
    [pc |-> "check", i |-> 1, disk |-> d, Train |-> NoSet, Test |-> NoSet,
     log |-> <<>>, exit |-> "", ops |-> <<>>, met |-> "", failed |-> FALSE,
     left |-> l,
     built |-> [Train |-> NotBuilt, Test |-> NotBuilt], view |-> NoView]

Init ==
    /\ boot = 1
    /\ \E d \in [Assets -> UNION {Cached[k] : k \in Assets}] :
        /\ \A k \in Assets : d[k] \in Cached[k]
        /\ LET n == [r \in Runs |->
                        LET f == Fresh(d, {}) IN
                        [f EXCEPT !.log = IF Logger[r] # "nil"
                                          THEN <<"Checking for MNIST data...">>
                                          ELSE <<>>]]
           IN /\ pc = [r \in Runs |-> n[r].pc]
              /\ i = [r \in Runs |-> n[r].i]
              /\ disk = [r \in Runs |-> n[r].disk]
              /\ Train = [r \in Runs |-> n[r].Train]
              /\ Test = [r \in Runs |-> n[r].Test]
              /\ log = [r \in Runs |-> n[r].log]
              /\ exit = [r \in Runs |-> n[r].exit]
              /\ ops = [r \in Runs |-> n[r].ops]
              /\ met = [r \in Runs |-> n[r].met]
              /\ failed = [r \in Runs |-> n[r].failed]
              /\ left = [r \in Runs |-> n[r].left]
              /\ built = [r \in Runs |-> n[r].built]
              /\ view = [r \in Runs |-> n[r].view]

(***************************************************************************)
(* init, step by step.                                                     *)
(***************************************************************************)
\* Logger output behind "if Logger != nil"
logf(s, lg, msg) ==
    IF lg # "nil" THEN [s EXCEPT !.log = Append(@, msg)] ELSE s

\* isNil that ends the process only behind "if Logger != nil"
isNilLoggedOnly(err, lg) ==
    IF err # "" /\ lg # "nil" THEN "exit" ELSE ""

\* isNil(err): "" when the caller goes on, otherwise how the process ends,
\* Logger.Fatal (os.Exit(1)) or panic
isNil(err, lg) ==
    IF err # ""
    THEN (IF lg # "nil" THEN "exit" ELSE "panic")
    ELSE ""

\* the end of the process placed behind "if Logger != nil"
DieLoggedOnly(s, lg, how, msg) ==
    IF lg # "nil"
    THEN [logf(s, lg, msg) EXCEPT !.pc = "dead", !.exit = how]
    ELSE s

\* the process ends: Logger.Fatal, os.Exit(1) or panic
Die(s, lg, how, msg) ==
    [logf(s, lg, msg) EXCEPT !.pc = "dead", !.exit = how]

\* "n < length" as the only mismatch
lengthAtLeast(n, length) == n >= length

\* the test of line 162 that lets the loop go on
lengthMatches(n, length) == n = length

\* the end of one iteration of "for i := range mnist"
advance(s) ==
    IF s.i = 4
    THEN [s EXCEPT !.pc = "readTrain"]
    ELSE [s EXCEPT !.pc = "check", !.i = @ + 1]

\* an entry of the history ops
Op(name, k, status, n) == [op |-> name, asset |-> k, status |-> status, n |-> n]

\* "<" for "==" in the test on fs.Size()
sizeBelow(size, length) == size < length

\* the test on fs.Size() of line 141
sizeOK(size, length) == size = length

\* lines 140-156: the check of the cached file of mnist[i]; io is the call of
\* the check that fails, if any: os.Open, f.Stat or a read of io.Copy
cacheCheck(s, lg, io) ==
    LET k == s.i
        f == s.disk[k]
        opened == f.exists /\ io # "open"
        sized == opened /\ io # "stat" /\ sizeOK(Len(f.data), mnist[k].length)
        \* io.Copy(hash, f): a failing read ends the copy early
        n == IF io = "read" THEN 0 ELSE Len(f.data)
        err == IF io = "read" THEN "read error" ELSE ""
        sum == md5Sum(SubSeq(f.data, 1, n))
        error == IF io = "open" THEN "open"
                 ELSE IF ~f.exists THEN ""
                 ELSE IF io = "stat" THEN "stat"
                 ELSE IF sized /\ io = "read" THEN "read"
                 ELSE ""
        checked(ok) == [s EXCEPT !.ops = Append(@, Op("check", k, 0, ok)),
                                 !.met = error]
        fetch == [logf(checked(0), lg, "Downloading") EXCEPT !.pc = "download"]
    IN  IF ~sized THEN fetch
        ELSE IF isNil(err, lg) # ""
        THEN Die(checked(0), lg, isNil(err, lg), err)
        ELSE IF n = mnist[k].length /\ Sprintfx(sum) = mnist[k].md5
        THEN advance(logf(checked(1), lg, "OK"))
        ELSE fetch

\* lines 157-171: the download of mnist[i]
download(s, lg, in) ==
    LET k == s.i
        getErr == IF in.get = "error" THEN "transport error" ELSE ""
        asked == [s EXCEPT !.ops = Append(@, Op("get", k, in.status, 0)),
                           !.met = ""]
        createErr == IF in.create = "error" THEN "create error" ELSE ""
        n == in.copied
        \* os.Create truncates the file, io.Copy writes n bytes of the body
        written == [asked EXCEPT
                       !.disk[k] = File(SubSeq(in.body, 1, n)),
                       !.left = @ \ {k},
                       !.ops = Append(Append(@, Op("create", k, 0, 0)),
                                      Op("copy", k, in.status, n))]
        copyErr == IF in.copyErr THEN "copy error" ELSE ""
    IN  IF getErr # ""
        THEN (IF isNil(getErr, lg) # ""
              THEN Die([s EXCEPT !.failed = TRUE, !.met = ""], lg,
                       isNil(getErr, lg), getErr)
              \* res is nil: res.Body is a nil pointer dereference
              ELSE Die([s EXCEPT !.failed = TRUE, !.met = ""], "nil", "panic", ""))
        ELSE IF createErr # ""
        THEN (IF isNil(createErr, lg) # ""
              THEN Die([asked EXCEPT !.failed = TRUE], lg,
                       isNil(createErr, lg), createErr)
              \* f is nil: io.Copy writes nothing and n is 0
              ELSE Die([asked EXCEPT !.failed = TRUE], lg, "exit",
                       "length mismatch"))
        ELSE IF ~lengthMatches(n, mnist[k].length)
        THEN Die([written EXCEPT !.failed = TRUE, !.left = @ \cup {k}], lg,
                 "exit", "length mismatch")
        ELSE IF copyErr # ""
        THEN (IF isNil(copyErr, lg) # ""
              THEN Die([written EXCEPT !.failed = TRUE], lg,
                       isNil(copyErr, lg), copyErr)
              ELSE advance([written EXCEPT !.failed = TRUE]))
        ELSE advance(written)

(***************************************************************************)
(* Set.                                                                    *)
(***************************************************************************)
Min(a, b) == IF a < b THEN a ELSE b

\* make([]byte, n) followed by io.ReadFull(z, buf): the n bytes of the buffer
\* after the read, zero where the stream ended early
ReadFull(payload, n) ==
    [j \in 1..n |-> IF j <= Len(payload) THEN payload[j] ELSE 0]

Result(set, err, panic) == [set |-> set, err |-> err, panic |-> panic]

\* Set.readImages(file); open is "error" when os.Open fails
readImages(s, file, open) ==
    LET z == gunzip(file.data)
        \* the header fields after the magic number that the stream holds whole
        whole == Min(3, (Len(z) - 4) \div 4)
        field(j) == BigEndianInt32(SubSeq(z, 4 * j + 1, 4 * j + 4))
        s1 == [s EXCEPT !.count = IF whole >= 1 THEN field(1) ELSE @,
                        !.rows = IF whole >= 2 THEN field(2) ELSE @,
                        !.cols = IF whole >= 3 THEN field(3) ELSE @]
        size == Mul32(Mul32(s1.count, s1.rows), s1.cols)
        payload == SubSeq(z, 17, Len(z))
    IN  IF open = "error" \/ ~file.exists THEN Result(s, "open error", FALSE)
        ELSE IF ~gzipOK(file.data) THEN Result(s, "gzip: invalid header", FALSE)
        ELSE IF Len(z) < 4 THEN Result(s, "EOF", FALSE)
        ELSE IF BigEndianInt32(SubSeq(z, 1, 4)) # xIMG
        THEN Result(s, "invalid magic number for images", FALSE)
        ELSE IF whole < 3 THEN Result(s1, "EOF", FALSE)
        \* make panics on a negative length
        ELSE IF size < 0 THEN Result(s1, "", TRUE)
        ELSE Result([s1 EXCEPT !.matrix = ReadFull(payload, size)],
                    IF Len(payload) < size THEN "unexpected EOF" ELSE "",
                    FALSE)

\* Set.readLabels(file)
readLabels(s, file, open) ==
    LET z == gunzip(file.data)
        count == BigEndianInt32(SubSeq(z, 5, 8))
        payload == SubSeq(z, 9, Len(z))
    IN  IF open = "error" \/ ~file.exists THEN Result(s, "open error", FALSE)
        ELSE IF ~gzipOK(file.data) THEN Result(s, "gzip: invalid header", FALSE)
        ELSE IF Len(z) < 4 THEN Result(s, "EOF", FALSE)
        ELSE IF BigEndianInt32(SubSeq(z, 1, 4)) # xLAB
        THEN Result(s, "invalid magic number for labels", FALSE)
        ELSE IF Len(z) < 8 THEN Result(s, "EOF", FALSE)
        ELSE IF count # s.count
        THEN Result(s, "mismatched number of labels and images", FALSE)
        ELSE IF s.count < 0 THEN Result(s, "", TRUE)
        ELSE Result([s EXCEPT !.labels = ReadFull(payload, s.count)],
                    IF Len(payload) < s.count THEN "unexpected EOF" ELSE "",
                    FALSE)

\* Set.read(images, labels); done tells which of the two decodes returned nil
read(s, images, labels, open) ==
    LET a == readImages(s, images, open)
        b == readLabels(a.set, labels, "ok")
    IN  IF a.err # "" \/ a.panic
        THEN a @@ [done |-> NotBuilt]
        ELSE b @@ [done |-> [images |-> TRUE,
                             labels |-> b.err = "" /\ ~b.panic]]

\* Set.Len, Set.Rows, Set.Cols
SetLen(s) == s.count
Rows(s) == s.rows
Cols(s) == s.cols

\* Set.Index(i)
Index(s, j) ==
    LET stride == Mul32(s.rows, s.cols)
        inside == /\ j >= 0 /\ j < Len(s.labels)
                  /\ stride >= 0 /\ stride <= Len(s.matrix)
                  /\ (j + 1) * stride <= Len(s.matrix)
    IN  IF inside
        THEN [label |-> s.labels[j + 1],
              image |-> SubSeq(s.matrix, j * stride + 1, (j + 1) * stride),
              panic |-> FALSE]
        ELSE [label |-> 0, image |-> <<>>, panic |-> TRUE]

\* lines 174 and 175: isNil(Train.read(...)) and isNil(Test.read(...))
decode(s, lg, name, open) ==
    LET k == IF name = "Train" THEN 1 ELSE 3
        res == read(s[name], s.disk[k], s.disk[k + 1], open)
        bad == res.err # "" \/ res.panic
        s1 == [s EXCEPT ![name] = res.set,
                        !.met = "",
                        !.built[name] = res.done,
                        !.failed = @ \/ bad,
                        !.ops = Append(@, Op("read", k, 0, 0))]
        next == IF name = "Train" THEN "readTest" ELSE "done"
    IN  IF res.panic THEN Die(s1, "nil", "panic", "")
        ELSE IF isNil(res.err, lg) # ""
        THEN Die(s1, lg, isNil(res.err, lg), res.err)
        ELSE [s1 EXCEPT !.pc = next]

\* a caller's Index call on Train or Test once init has returned
call(s, name, j) ==
    LET got == Index(s[name], j)
    IN  [s EXCEPT !.view = [set |-> name, index |-> j, label |-> got.label,
                            image |-> got.image, panic |-> got.panic],
                  !.pc = IF got.panic THEN "dead" ELSE @,
                  !.exit = IF got.panic THEN "panic" ELSE @]

(***************************************************************************)
(* Actions.  Both runs take the step on the same input.                    *)
(***************************************************************************)
At(p) == \E r \in Runs : pc[r] = p
Lead(p) == IF pc["logged"] = p THEN "logged" ELSE "silent"

CacheCheck ==
    /\ At("check")
    /\ \E io \in {"ok", "open", "stat", "read"} :
        Commit([r \in Runs |->
                   IF pc[r] = "check" THEN cacheCheck(S(r), Logger[r], io)
                   ELSE S(r)])
    /\ UNCHANGED boot

Download ==
    /\ At("download")
    /\ \E in \in Responses[i[Lead("download")]] :
        Commit([r \in Runs |->
                   IF pc[r] = "download" THEN download(S(r), Logger[r], in)
                   ELSE S(r)])
    /\ UNCHANGED boot

ReadTrain ==
    /\ At("readTrain")
    /\ \E open \in {"ok", "error"} :
        Commit([r \in Runs |->
                   IF pc[r] = "readTrain"
                   THEN decode(S(r), Logger[r], "Train", open)
                   ELSE S(r)])
    /\ UNCHANGED boot

ReadTest ==
    /\ At("readTest")
    /\ \E open \in {"ok", "error"} :
        Commit([r \in Runs |->
                   IF pc[r] = "readTest"
                   THEN decode(S(r), Logger[r], "Test", open)
                   ELSE S(r)])
    /\ UNCHANGED boot

IndexCall ==
    /\ At("done")
    /\ \E name \in {"Train", "Test"} :
        \E j \in 0..(SetLen(S(Lead("done"))[name]) - 1) :
            Commit([r \in Runs |->
                       IF pc[r] = "done" THEN call(S(r), name, j) ELSE S(r)])
    /\ UNCHANGED boot

\* the program is started again on the disk the last process left
Restart ==
    /\ \A r \in Runs : pc[r] \in {"done", "dead"}
    /\ boot < MaxBoots
    /\ boot' = boot + 1
    /\ Commit([r \in Runs |->
                  logf(Fresh(disk[r], left[r]), Logger[r],
                        "Checking for MNIST data...")])

Next ==
    \/ CacheCheck
    \/ Download
    \/ ReadTrain
    \/ ReadTest
    \/ IndexCall
    \/ Restart

Spec == Init /\ [][Next]_vars

(***************************************************************************)
(* Properties.                                                             *)
(***************************************************************************)
Sets == {"Train", "Test"}

\* the file exists with the length of the table and the digest of the
\* published file of asset k
Valid(f, k) ==
    /\ f.exists
    /\ Len(f.data) = mnist[k].length
    /\ md5Sum(f.data) = md5Sum(Canon[k])

Last(q) == q[Len(q)]

\* run r appends entries to ops in this step
Logged(r) == Len(ops'[r]) > Len(ops[r])

\* the cache check of this process took the file of asset k
CheckedOK(r, k) ==
    \E j \in DOMAIN ops[r] :
        ops[r][j].op = "check" /\ ops[r][j].asset = k /\ ops[r][j].n = 1

\* Set.read has returned nil for the set
Decoded(r, name) == built[r][name].images /\ built[r][name].labels

\* count * rows * cols and rows * cols of a Set as integers of 96 bits,
\* which hold the product of three int32 values exactly
Volume(s) ==
    MulLE(MulLE(LE(SetLen(s), 12), LE(Rows(s), 12), 12), LE(Cols(s), 12), 12)
Area(s) == MulLE(LE(Rows(s), 12), LE(Cols(s), 12), 12)

\* the count field of the header of a file, at bytes 4..7 of the stream
HeaderCount(f) == BigEndianInt32(SubSeq(gunzip(f.data), 5, 8))

ImagesOf(name) == IF name = "Train" THEN 1 ELSE 3

\* C1: decoding starts only when each of the four local files has the
\* length and the md5 of the table, whether it was cached or downloaded.
C1_DecodeOnlyVerifiedFiles ==
    \A r \in Runs :
        pc[r] \in {"readTrain", "readTest"} =>
            \A k \in Assets : Valid(disk[r][k], k)

\* C2: the cache check skips the download of an asset only if its file
\* exists with the length and the md5 of the table, and, when no call of the
\* check fails, exactly if it does.
C2_CacheCheckIffValid ==
    [][\A r \in Runs :
          (pc[r] = "check" /\ Logged(r)) =>
              LET k == i[r]
                  e == Last(ops'[r])
                  skipped == pc'[r] \in {"check", "readTrain"}
              IN  /\ e.op = "check" /\ e.asset = k
                  /\ (e.n = 1) <=> skipped
                  /\ skipped => Valid(disk[r][k], k)
                  /\ met'[r] = "" => (skipped <=> Valid(disk[r][k], k))]_vars

\* C2 witness: one process has skipped the download of a valid file and has
\* gone to download a file that failed the check with no I/O error.
C2_Witness ==
    \E r \in Runs : \E a, b \in DOMAIN ops[r] :
        /\ ops[r][a].op = "check" /\ ops[r][a].n = 1
        /\ ops[r][b].op = "check" /\ ops[r][b].n = 0
        /\ b = Len(ops[r]) /\ met[r] = ""
        /\ disk[r][ops[r][b].asset].exists

\* C3: an I/O error met by the cache check (open, stat or read) leads to the
\* download of the asset and never ends the process.
C3_CheckErrorRefetches ==
    [][\A r \in Runs :
          (pc[r] = "check" /\ Logged(r) /\ met'[r] # "") =>
              pc'[r] = "download"]_vars

\* C4: once the cache check has taken the file of an asset, the process
\* issues no request for it and does not write its file; while all four files
\* are valid, a step in which the cache check meets no I/O error issues no
\* request, changes no file and leads to no download, in this process and in
\* the next.
C4_ValidFileUntouched ==
    [][\A r \in Runs :
          LET q == ops'[r] IN
          /\ \A j \in DOMAIN q :
                (q[j].op = "check" /\ q[j].n = 1) =>
                    /\ disk'[r][q[j].asset] = disk[r][q[j].asset]
                    /\ \A h \in DOMAIN q :
                          q[h].asset = q[j].asset =>
                              q[h].op \notin {"get", "create", "copy"}
          /\ (/\ pc[r] # "download"
              /\ met'[r] = ""
              /\ \A k \in Assets : Valid(disk[r][k], k)) =>
                /\ disk'[r] = disk[r]
                /\ \A j \in (Len(ops[r]) + 1)..Len(q) :
                      q[j].op \notin {"get", "create", "copy"}
                /\ pc'[r] # "download"]_vars

\* C4 witness: the second process on a disk has found all four files valid
\* and init has returned.
C4_Witness ==
    \E r \in Runs :
        /\ boot >= 2
        /\ pc[r] = "done"
        /\ \A k \in Assets : CheckedOK(r, k) /\ Valid(disk[r][k], k)

\* C5: a copy that writes a number of bytes other than the length of the
\* table ends the process at once: no later asset is processed and no Set is
\* decoded; the file it leaves is not taken by the cache check of any later
\* process.
C5_LengthMismatchIsFatal ==
    [][\A r \in Runs :
          /\ (pc[r] = "download" /\ Logged(r) /\ Last(ops'[r]).op = "copy"
              /\ Last(ops'[r]).n # mnist[i[r]].length) =>
                /\ pc'[r] = "dead" /\ exit'[r] # ""
                /\ i'[r] = i[r] /\ i[r] \in left'[r]
                /\ Len(disk'[r][i[r]].data) = Last(ops'[r]).n
                /\ Train'[r] = NoSet /\ Test'[r] = NoSet
          /\ (pc[r] = "dead" /\ boot' = boot) =>
                /\ pc'[r] = "dead" /\ i'[r] = i[r] /\ ops'[r] = ops[r]
                /\ Train'[r] = Train[r] /\ Test'[r] = Test[r]
          /\ (pc[r] = "check" /\ i[r] \in left[r]) => pc'[r] = "download"
          /\ \A k \in left'[r] : ~Valid(disk'[r][k], k)]_vars

\* C5 witness: a later process has checked the file a mismatched copy left
\* and goes to download the asset again.
C5_Witness ==
    \E r \in Runs :
        /\ boot >= 2
        /\ pc[r] = "download"
        /\ i[r] \in left[r]
        /\ disk[r][i[r]].exists

\* C6: the body of a response with a non-success status is never written to
\* the local file, and no download goes on after such a response.
C6_NoBodyOfFailedResponse ==
    \A r \in Runs : \A j \in DOMAIN ops[r] :
        ops[r][j].op \in {"create", "copy"} =>
            \A g \in 1..j :
                (ops[r][g].op = "get" /\ ops[r][g].asset = ops[r][j].asset)
                    => ops[r][g].status = 200

\* C7: when Set.read has returned nil, Len() is the count of the image header
\* and of the label header, the pixel storage has Len()*Rows()*Cols() bytes
\* and the label storage Len() bytes.
C7_DecodedSizes ==
    \A r \in Runs : \A name \in Sets :
        Decoded(r, name) =>
            LET s == S(r)[name]
                k == ImagesOf(name)
            IN  /\ SetLen(s) = HeaderCount(disk[r][k])
                /\ SetLen(s) = HeaderCount(disk[r][k + 1])
                /\ Len(s.labels) = SetLen(s)
                /\ LE(Len(s.matrix), 12) = Volume(s)

\* C8: on a loaded Set, Index(i) returns the label at i and the Rows()*Cols()
\* bytes of the pixel storage from i*Rows()*Cols(), and the images of
\* Index(0), ..., Index(Len()-1) in order are the pixel storage.
RECURSIVE Images(_, _)
Images(s, j) ==
    IF j >= SetLen(s) THEN <<>> ELSE Index(s, j).image \o Images(s, j + 1)

C8_IndexSlices ==
    \A r \in Runs :
        /\ view[r].set # "" =>
              LET s == S(r)[view[r].set]
                  j == view[r].index
              IN  /\ ~view[r].panic
                  /\ view[r].label = s.labels[j + 1]
                  /\ LE(Len(view[r].image), 12) = Area(s)
                  /\ view[r].image =
                        SubSeq(s.matrix, j * Rows(s) * Cols(s) + 1,
                               (j + 1) * Rows(s) * Cols(s))
        /\ \A name \in Sets :
              (pc[r] = "done" /\ Decoded(r, name)) =>
                  Images(S(r)[name], 0) = S(r)[name].matrix

C10_LoggerChangesNothing ==
    /\ pc["silent"] = pc["logged"]
    /\ i["silent"] = i["logged"]
    /\ disk["silent"] = disk["logged"]
    /\ Train["silent"] = Train["logged"]
    /\ Test["silent"] = Test["logged"]
    /\ ops["silent"] = ops["logged"]
    /\ failed["silent"] = failed["logged"]
    /\ left["silent"] = left["logged"]
    /\ built["silent"] = built["logged"]
    /\ view["silent"] = view["logged"]
    /\ (exit["silent"] = "") <=> (exit["logged"] = "")
    /\ log["silent"] = <<>>

\* C10 witness: an error has ended both runs at the same step, one through
\* Logger.Fatal and one through panic, after a download in each.
C10_Witness ==
    /\ pc["silent"] = "dead" /\ pc["logged"] = "dead"
    /\ exit["logged"] = "exit" /\ exit["silent"] = "panic"
    /\ Len(log["logged"]) > 1
    /\ \E j \in DOMAIN ops["logged"] : ops["logged"][j].op = "copy"

====
